---------------------------- MODULE Spec2Model ----------------------------
(***************************************************************************)
(* A model of the PDF page counter (src/src/App.tsx, src/src/config.ts):   *)
(* the analysis run (analysePDFs, processPDFBatch, processPDFFile), the    *)
(* file table (search, sort, pagination) and the PDF viewer.               *)
(*                                                                         *)
(* Strings are sequences of one-character strings, so that toUpperCase,    *)
(* toLowerCase, endsWith, includes and localeCompare are computed and not  *)
(* assumed.  A nullable object is NULL (the empty tuple) or <<object>>.    *)
(***************************************************************************)
EXTENDS Integers, Sequences, FiniteSets, TLC

(***************************************************************************)
(* Bounds of the model.                                                    *)
(***************************************************************************)
\* longest directory drawn from the pool of files
MaxFiles == 2
\* largest configured batch size
MaxBatch == 3
\* most name fragments concatenated into a file name
MaxFragments == 3
\* longest published list drawn for the table and the viewer
MaxList == 3
\* most openPdfViewer calls in flight
MaxCalls == 2

(***************************************************************************)
(* Strings.                                                                *)
(***************************************************************************)
NULL == <<>>

LowerLetters ==
  <<"a","b","c","d","e","f","g","h","i","j","k","l","m",
    "n","o","p","q","r","s","t","u","v","w","x","y","z">>

UpperLetters ==
  <<"A","B","C","D","E","F","G","H","I","J","K","L","M",
    "N","O","P","Q","R","S","T","U","V","W","X","Y","Z">>

DigitChars == <<"0","1","2","3","4","5","6","7","8","9">>

Range(t) == {t[n] : n \in 1..Len(t)}

IndexIn(c, t) == CHOOSE n \in 1..Len(t) : t[n] = c

\* the characters of the model's strings
Chars == Range(LowerLetters) \cup Range(UpperLetters) \cup Range(DigitChars) \cup {"-", "."}

UpperOf ==
  [c \in Chars |->
     IF c \in Range(LowerLetters) THEN UpperLetters[IndexIn(c, LowerLetters)] ELSE c]

LowerOf ==
  [c \in Chars |->
     IF c \in Range(UpperLetters) THEN LowerLetters[IndexIn(c, UpperLetters)] ELSE c]

toUpperCase(s) == [n \in 1..Len(s) |-> UpperOf[s[n]]]

toLowerCase(s) == [n \in 1..Len(s) |-> LowerOf[s[n]]]

endsWith(s, suffix) ==
  /\ Len(suffix) <= Len(s)
  /\ SubSeq(s, Len(s) - Len(suffix) + 1, Len(s)) = suffix

includes(s, sub) ==
  \E off \in 0..(Len(s) - Len(sub)) : SubSeq(s, off + 1, off + Len(sub)) = sub

RECURSIVE toString(_)
toString(n) ==
  IF n < 10 THEN <<DigitChars[n + 1]>>
  ELSE toString(n \div 10) \o <<DigitChars[(n % 10) + 1]>>

\* The collation order of the characters used: punctuation, digits, letters;
\* letter case is a tie-break only (lower case first).
Collation == <<"-", ".">> \o DigitChars \o LowerLetters

PrimaryOf == [c \in Chars |-> IndexIn(LowerOf[c], Collation)]

CaseOf == [c \in Chars |-> IF c \in Range(UpperLetters) THEN 1 ELSE 0]

PrimaryKey(s) == [n \in 1..Len(s) |-> PrimaryOf[s[n]]]

CaseKey(s) == [n \in 1..Len(s) |-> CaseOf[s[n]]]

\* the order of two key sequences: by the first position where they differ,
\* a proper prefix first
LexCompare(a, b) ==
  LET differ == {n \in 1..(IF Len(a) < Len(b) THEN Len(a) ELSE Len(b)) : a[n] # b[n]}
  IN  IF differ = {}
      THEN (IF Len(a) < Len(b) THEN -1 ELSE IF Len(a) > Len(b) THEN 1 ELSE 0)
      ELSE LET n == CHOOSE m \in differ : \A o \in differ : m <= o
           IN  IF a[n] < b[n] THEN -1 ELSE 1

localeCompare(a, b) ==
  IF LexCompare(PrimaryKey(a), PrimaryKey(b)) # 0
  THEN LexCompare(PrimaryKey(a), PrimaryKey(b))
  ELSE LexCompare(CaseKey(a), CaseKey(b))

TwoDigits(n) == <<DigitChars[(n \div 10) + 1], DigitChars[(n % 10) + 1]>>

\* toLocaleDateString('en-GB', 2-digit day, 2-digit month, numeric year) with
\* every "/" replaced by "-": DD-MM-YYYY
formatDate(date) ==
  TwoDigits(date.day) \o <<"-">> \o TwoDigits(date.month) \o <<"-">>
    \o TwoDigits(date.year \div 100) \o TwoDigits(date.year % 100)

(***************************************************************************)
(* The files of the user's file system.  A handle carries what the File    *)
(* System Access API and PDF.js will answer for it: io is "ok", or the     *)
(* call that fails for this file.                                          *)
(***************************************************************************)
ExtPdf == <<".", "p", "d", "f">>
ExtPDF == <<".", "P", "D", "F">>
MarkerWIDE == <<"-", "W", "I", "D", "E">>
MarkerA3 == <<"-", "A", "3">>
MarkerA4 == <<"-", "A", "4">>

Handle(name, kind, numPages, day, io) ==
  [name |-> name, kind |-> kind, numPages |-> numPages,
   lastModified |-> [day |-> day, month |-> 3, year |-> 2024], io |-> io]

FileA == Handle(<<"A">> \o MarkerWIDE \o ExtPdf, "file", 3, 9, "ok")
FileB == Handle(<<"B">> \o MarkerA3 \o ExtPDF, "file", 5, 7, "ok")
FileC == Handle(<<"C", "-", "u", "n", "k", "n", "o", "w", "n">> \o ExtPdf, "file", 2, 7, "ok")
FileD == Handle(<<"D">> \o MarkerA4 \o ExtPdf, "file", 1, 21, "ok")
FileE == Handle(<<"E">> \o MarkerA4 \o ExtPdf, "file", 2, 9, "destroyFails")
FileF == Handle(<<"F">> \o MarkerA3 \o ExtPdf, "file", 1, 9, "getFileFails")
FileG == Handle(<<"G">> \o MarkerA3 \o ExtPdf, "file", 4, 9, "arrayBufferFails")
FileH == Handle(<<"H">> \o MarkerA4 \o ExtPdf, "file", 2, 9, "parseFails")
FileT == Handle(<<"n", "o", "t", "e", "s", "-", "a", "4", ".", "t", "x", "t">>, "file", 1, 9, "ok")
DirS == Handle(<<"s", "u", "b">> \o MarkerA4 \o ExtPdf, "directory", 0, 9, "ok")

Pool == {FileA, FileB, FileC, FileD, FileE, FileF, FileG, FileH}

\* the directory of the end-to-end example
E2EDir == <<FileA, FileB, FileC, FileD>>

\* a directory with a sub-directory and a file that is no PDF
MixedDir == <<DirS, FileT, FileD>>

\* a directory of more files than one page of the table shows
BigSize == 11
BigDir ==
  [n \in 1..BigSize |->
     Handle(<<"p", DigitChars[(n \div 10) + 1], DigitChars[(n % 10) + 1]>>
              \o MarkerA4 \o ExtPdf, "file", 1, n, "ok")]

DistinctSeqs(S, n) ==
  {s \in [1..n -> S] : \A a, b \in 1..n : a # b => s[a] # s[b]}

Dirs ==
  UNION {DistinctSeqs(Pool, n) : n \in 0..MaxFiles} \cup {E2EDir, MixedDir, BigDir}

BatchSizes == 1..MaxBatch

(***************************************************************************)
(* State.                                                                  *)
(***************************************************************************)
VARIABLES
  \* React state of App
  pageCounts, fileList, loading, progress, currentPage,
  sortField, sortDirection, searchQuery,
  selectedFile, pdfUrl, pdfDocument, currentPdfPage, totalPdfPages,
  \* configuration read at start-up
  BATCH_SIZE,
  \* analysePDFs: position, locals, and the alert it raised
  pc, dirHandle, counts, processedFiles, pdfFiles, i, alertMsg,
  \* processPDFBatch: position in the batch, its currentBatch argument
  k, currentBatch,
  \* processPDFFile: the parsed document and the local `type`
  pdf, type,
  \* the parsed documents this run opened for counting and has not released
  openDocuments,
  \* openPdfViewer calls in flight
  viewerCalls,
  \* what the cleanup of the last effect run closes over
  cleanup

tableVars == <<currentPage, sortField, sortDirection, searchQuery>>
viewerVars ==
  <<selectedFile, pdfUrl, pdfDocument, currentPdfPage, totalPdfPages, viewerCalls,
    cleanup>>
publishedVars == <<pageCounts, fileList>>
runVars ==
  <<loading, progress, pc, dirHandle, counts, processedFiles, pdfFiles, i,
    alertMsg, k, currentBatch, pdf, type, openDocuments>>
vars == <<publishedVars, tableVars, viewerVars, runVars, BATCH_SIZE>>

ZeroCounts == [WIDE |-> 0, A3 |-> 0, A4 |-> 0]

filesPerPage == 10

\* config.useDocsPath
useDocsPath == TRUE

InitPublished ==
  /\ pageCounts = ZeroCounts
  /\ fileList = <<>>

InitTableState ==
  /\ currentPage = 1
  /\ sortField = "name"
  /\ sortDirection = "asc"
  /\ searchQuery = <<>>

InitViewer ==
  /\ selectedFile = NULL
  /\ pdfUrl = NULL
  /\ pdfDocument = NULL
  /\ currentPdfPage = 1
  /\ totalPdfPages = 0
  /\ viewerCalls = <<>>
  /\ cleanup = [pdfDocument |-> "null", pdfUrl |-> "null"]

InitRun ==
  /\ loading = FALSE
  /\ progress = NULL
  /\ pc = "idle"
  /\ dirHandle = NULL
  /\ counts = ZeroCounts
  /\ processedFiles = <<>>
  /\ pdfFiles = <<>>
  /\ i = 0
  /\ alertMsg = ""
  /\ k = 0
  /\ currentBatch = 0
  /\ pdf = NULL
  /\ type = ""
  /\ openDocuments = 0

Init ==
  /\ InitPublished
  /\ InitTableState
  /\ InitViewer
  /\ InitRun
  /\ BATCH_SIZE \in BatchSizes


(***************************************************************************)
(* The file table: filteredFiles, sortedFiles, totalPages, visibleFiles.   *)
(***************************************************************************)
Min(a, b) == IF a < b THEN a ELSE b
Max(a, b) == IF a > b THEN a ELSE b
CeilDiv(a, b) == (a + b - 1) \div b

\* the predicate of fileList.filter, for the lower-cased query
MatchesQuery(file, query) ==
  \/ includes(toLowerCase(file.name), query)
  \/ includes(toLowerCase(file.type), query)
  \/ includes(toString(file.pages), query)
  \/ includes(toLowerCase(file.createdAt), query)

\* the records among the first n of the list that match the query
RECURSIVE SelectPrefix(_, _, _)
SelectPrefix(list, n, query) ==
  IF n = 0 THEN <<>>
  ELSE CHOOSE selected \in
         {front \o (IF MatchesQuery(list[n], query) THEN <<list[n]>> ELSE <<>>) :
            front \in {SelectPrefix(list, m, query) : m \in {n - 1}}} : TRUE

filteredFiles ==
  CHOOSE selected \in
    {SelectPrefix(fileList, Len(fileList), query) : query \in {toLowerCase(searchQuery)}} : TRUE

TypeName(t) ==
  CASE t = "WIDE" -> <<"W", "I", "D", "E">>
    [] t = "A3" -> <<"A", "3">>
    [] t = "A4" -> <<"A", "4">>
    [] OTHER -> <<>>

\* the comparator of sortedFiles, before the direction is applied
CompareBy(field, a, b) ==
  CASE field = "name" -> localeCompare(a.name, b.name)
    [] field = "type" -> localeCompare(a.type, b.type)
    [] field = "pages" -> a.pages - b.pages
    [] field = "createdAt" -> localeCompare(a.createdAt, b.createdAt)
    [] OTHER -> 0

\* a comparator that ignores the direction
ComparatorAscending(field, dir, a, b) == CompareBy(field, a, b)

Comparator(field, dir, a, b) ==
  CompareBy(field, a, b) * (IF dir = "asc" THEN 1 ELSE -1)

\* Array.prototype.sort is stable: x goes in front of the first element that
\* compares greater than it, behind its equals
InsertSorted(sorted, x, field, dir) ==
  LET greater == {n \in 1..Len(sorted) : Comparator(field, dir, sorted[n], x) > 0}
      at == IF greater = {} THEN Len(sorted) + 1
            ELSE CHOOSE n \in greater : \A m \in greater : n <= m
  IN  SubSeq(sorted, 1, at - 1) \o <<x>> \o SubSeq(sorted, at, Len(sorted))

\* the first n elements of the list, sorted: they are inserted in the order
\* of the list
RECURSIVE SortPrefix(_, _, _, _)
SortPrefix(list, n, field, dir) ==
  IF n = 0 THEN <<>>
  ELSE CHOOSE sorted \in
         {InsertSorted(front, list[n], field, dir) :
            front \in {SortPrefix(list, m, field, dir) : m \in {n - 1}}} : TRUE

\* [...list].sort(comparator); the list is evaluated once
SortRecords(list, field, dir) ==
  CHOOSE sorted \in {SortPrefix(copy, Len(copy), field, dir) : copy \in {list}} : TRUE

sortedFiles == SortRecords(filteredFiles, sortField, sortDirection)

totalPages == CeilDiv(Len(sortedFiles), filesPerPage)

startIndex == (currentPage - 1) * filesPerPage

visibleFiles ==
  SubSeq(sortedFiles, startIndex + 1, Min(startIndex + filesPerPage, Len(sortedFiles)))

(***************************************************************************)
(* processPDFFile, processPDFBatch, analysePDFs.                           *)
(***************************************************************************)
\* a marker chain that tests -A3 before -WIDE
classifyA3First(fileName) ==
  IF includes(fileName, MarkerA3) THEN "A3"
  ELSE IF includes(fileName, MarkerWIDE) THEN "WIDE"
  ELSE IF includes(fileName, MarkerA4) THEN "A4"
  ELSE ""

\* the marker chain of processPDFFile, on the upper-cased name
classify(fileName) ==
  IF includes(fileName, MarkerWIDE) THEN "WIDE"
  ELSE IF includes(fileName, MarkerA3) THEN "A3"
  ELSE IF includes(fileName, MarkerA4) THEN "A4"
  ELSE ""

\* the filter of the enumeration in analysePDFs
RECURSIVE CollectPdfFiles(_)
CollectPdfFiles(entries) ==
  IF entries = <<>> THEN <<>>
  ELSE LET handle == Head(entries)
       IN  (IF handle.kind = "file" /\ endsWith(toLowerCase(handle.name), ExtPdf)
            THEN <<handle>> ELSE <<>>) \o CollectPdfFiles(Tail(entries))

\* the guard of processPDFFile
IsPdfHandle(fileHandle) ==
  fileHandle.kind = "file" /\ endsWith(fileHandle.name, ExtPdf)

totalBatches == CeilDiv(Len(pdfFiles), BATCH_SIZE)

\* pdfFiles.slice(i, i + BATCH_SIZE)
batch == SubSeq(pdfFiles, i + 1, Min(i + BATCH_SIZE, Len(pdfFiles)))

FileInfo(fileHandle, t) ==
  [name |-> fileHandle.name, pages |-> fileHandle.numPages, type |-> TypeName(t),
   createdAt |-> formatDate(fileHandle.lastModified), fileHandle |-> fileHandle]

\* error messages shown by the alert of analysePDFs
PickerAborted == "The user aborted a request."
PathNotAccessible == "Selected path is not accessible."
FileNotFound == "A requested file or directory could not be found."

\* the Select Folder button: analysePDFs up to the directory picker
analysePDFs ==
  /\ pc = "idle"
  /\ ~loading
  /\ loading' = TRUE
  /\ progress' = NULL
  /\ pc' = "picker"
  /\ UNCHANGED <<publishedVars, tableVars, viewerVars, BATCH_SIZE, dirHandle, counts,
                 processedFiles, pdfFiles, i, alertMsg, k, currentBatch, pdf, type, openDocuments>>

\* a catch block that also clears the published results
catchErrorClearsList(message) ==
  /\ alertMsg' = message
  /\ pc' = "finally"
  /\ fileList' = <<>>
  /\ pageCounts' = ZeroCounts
  /\ UNCHANGED <<tableVars, viewerVars, BATCH_SIZE, loading, progress,
                 dirHandle, counts, processedFiles, pdfFiles, i, k, currentBatch,
                 pdf, type, openDocuments>>

\* the catch block of analysePDFs: the alert
catchError(message) ==
  /\ alertMsg' = message
  /\ pc' = "finally"
  /\ UNCHANGED <<publishedVars, tableVars, viewerVars, BATCH_SIZE, loading, progress,
                 dirHandle, counts, processedFiles, pdfFiles, i, k, currentBatch,
                 pdf, type, openDocuments>>

\* window.showDirectoryPicker() resolves with a directory or rejects
showDirectoryPicker ==
  /\ pc = "picker"
  /\ \/ catchError(PickerAborted)
     \/ \E dir \in Dirs :
          /\ dirHandle' = <<dir>>
          /\ pc' = IF useDocsPath THEN "checkPath" ELSE "enumerate"
          /\ UNCHANGED <<publishedVars, tableVars, viewerVars, BATCH_SIZE, loading,
                         progress, counts, processedFiles, pdfFiles, i, alertMsg, k,
                         currentBatch, pdf, type, openDocuments>>

\* checkPathExists: a second picker; false when it rejects
checkPathExists ==
  /\ pc = "checkPath"
  /\ \E pathAccessible \in BOOLEAN :
       IF pathAccessible
       THEN /\ pc' = "enumerate"
            /\ UNCHANGED <<publishedVars, tableVars, viewerVars, BATCH_SIZE, loading,
                           progress, dirHandle, counts, processedFiles, pdfFiles, i,
                           alertMsg, k, currentBatch, pdf, type, openDocuments>>
       ELSE catchError(PathNotAccessible)

\* counts, processedFiles and the collection of the PDF files
enumerate ==
  /\ pc = "enumerate"
  /\ counts' = ZeroCounts
  /\ processedFiles' = <<>>
  /\ pdfFiles' = CollectPdfFiles(dirHandle[1])
  /\ i' = 0
  /\ pc' = "loop"
  /\ UNCHANGED <<publishedVars, tableVars, viewerVars, BATCH_SIZE, loading, progress,
                 dirHandle, alertMsg, k, currentBatch, pdf, type, openDocuments>>

\* the batch loop of analysePDFs: the next processPDFBatch call
processPDFBatch ==
  /\ pc = "loop"
  /\ i < Len(pdfFiles)
  /\ currentBatch' = (i \div BATCH_SIZE) + 1
  /\ k' = 1
  /\ pc' = "file"
  /\ UNCHANGED <<publishedVars, tableVars, viewerVars, BATCH_SIZE, loading, progress,
                 dirHandle, counts, processedFiles, pdfFiles, i, alertMsg, pdf, type, openDocuments>>

\* the end of the batch loop without setCurrentPage(1)
runCompleteKeepsPage ==
  /\ pc = "loop"
  /\ i >= Len(pdfFiles)
  /\ pc' = "finally"
  /\ UNCHANGED <<publishedVars, tableVars, viewerVars,
                 BATCH_SIZE, loading, progress, dirHandle, counts, processedFiles,
                 pdfFiles, i, alertMsg, k, currentBatch, pdf, type, openDocuments>>

\* the batch loop is over: setCurrentPage(1)
runComplete ==
  /\ pc = "loop"
  /\ i >= Len(pdfFiles)
  /\ currentPage' = 1
  /\ pc' = "finally"
  /\ UNCHANGED <<publishedVars, sortField, sortDirection, searchQuery, viewerVars,
                 BATCH_SIZE, loading, progress, dirHandle, counts, processedFiles,
                 pdfFiles, i, alertMsg, k, currentBatch, pdf, type, openDocuments>>

\* the finally block of analysePDFs, and its locals going out of scope
finally ==
  /\ pc = "finally"
  /\ loading' = FALSE
  /\ progress' = NULL
  /\ pc' = "idle"
  /\ dirHandle' = NULL
  /\ counts' = ZeroCounts
  /\ processedFiles' = <<>>
  /\ pdfFiles' = <<>>
  /\ i' = 0
  /\ alertMsg' = ""
  /\ k' = 0
  /\ currentBatch' = 0
  /\ pdf' = NULL
  /\ type' = ""
  /\ openDocuments' = 0
  /\ UNCHANGED <<publishedVars, tableVars, viewerVars, BATCH_SIZE>>

\* processPDFFile is called for batch[k]: its guard
processPDFFile ==
  /\ pc = "file"
  /\ pc' = IF IsPdfHandle(batch[k]) THEN "getFile" ELSE "delayFile"
  /\ UNCHANGED <<publishedVars, tableVars, viewerVars, BATCH_SIZE, loading, progress,
                 dirHandle, counts, processedFiles, pdfFiles, i, alertMsg, k,
                 currentBatch, pdf, type, openDocuments>>

\* await fileHandle.getFile(), outside the try block
getFile ==
  /\ pc = "getFile"
  /\ IF batch[k].io = "getFileFails"
     THEN catchError(FileNotFound)
     ELSE /\ pc' = "parse"
          /\ UNCHANGED <<publishedVars, tableVars, viewerVars, BATCH_SIZE, loading,
                         progress, dirHandle, counts, processedFiles, pdfFiles, i,
                         alertMsg, k, currentBatch, pdf, type, openDocuments>>

\* file.arrayBuffer(), getDocument and the marker chain
parse ==
  /\ pc = "parse"
  /\ IF batch[k].io \in {"arrayBufferFails", "parseFails"}
     THEN /\ pc' = "delayFile"
          /\ UNCHANGED <<counts, pdf, type, openDocuments>>
     ELSE /\ pdf' = <<[numPages |-> batch[k].numPages]>>
          /\ openDocuments' = openDocuments + 1
          /\ type' = classify(toUpperCase(batch[k].name))
          /\ counts' = IF type' = "" THEN counts
                       ELSE [counts EXCEPT ![type'] = @ + batch[k].numPages]
          /\ pc' = "destroy"
  /\ UNCHANGED <<publishedVars, tableVars, viewerVars, BATCH_SIZE, loading, progress,
                 dirHandle, processedFiles, pdfFiles, i, alertMsg, k, currentBatch>>

\* await pdf.destroy(), the return of processPDFFile and, in processPDFBatch,
\* the push and the publication of a result
destroy ==
  /\ pc = "destroy"
  /\ IF batch[k].io # "destroyFails" /\ type # ""
     THEN /\ processedFiles' = Append(processedFiles, FileInfo(batch[k], type))
          /\ fileList' = processedFiles'
          /\ pageCounts' = counts
     ELSE UNCHANGED <<processedFiles, fileList, pageCounts>>
  \* a destroy() that rejects may or may not have released the document
  /\ \E released \in (IF batch[k].io = "destroyFails" THEN BOOLEAN ELSE {TRUE}) :
       openDocuments' = IF released THEN openDocuments - 1 ELSE openDocuments
  /\ pdf' = NULL
  /\ type' = ""
  /\ pc' = "delayFile"
  /\ UNCHANGED <<tableVars, viewerVars, BATCH_SIZE, loading, progress, dirHandle,
                 counts, pdfFiles, i, alertMsg, k, currentBatch>>

\* delay(100), then the next file of the batch or setProgress
delayFile ==
  /\ pc = "delayFile"
  /\ IF k < Len(batch)
     THEN /\ k' = k + 1
          /\ pc' = "file"
          /\ UNCHANGED progress
     ELSE /\ progress' = <<[processed |-> Len(processedFiles),
                            total |-> totalBatches * BATCH_SIZE,
                            currentBatch |-> currentBatch,
                            totalBatches |-> totalBatches]>>
          /\ pc' = "delayBatch"
          /\ UNCHANGED k
  /\ UNCHANGED <<publishedVars, tableVars, viewerVars, BATCH_SIZE, loading, dirHandle,
                 counts, processedFiles, pdfFiles, i, alertMsg, currentBatch, pdf, type, openDocuments>>

\* a batch loop whose index does not advance
delayBatchNoAdvance ==
  /\ pc = "delayBatch"
  /\ i' = i
  /\ pc' = "loop"
  /\ UNCHANGED <<publishedVars, tableVars, viewerVars, BATCH_SIZE, loading, progress,
                 dirHandle, counts, processedFiles, pdfFiles, alertMsg, k, currentBatch,
                 pdf, type, openDocuments>>

\* delay(200), then i += BATCH_SIZE
delayBatch ==
  /\ pc = "delayBatch"
  /\ i' = i + BATCH_SIZE
  /\ pc' = "loop"
  /\ UNCHANGED <<publishedVars, tableVars, viewerVars, BATCH_SIZE, loading, progress,
                 dirHandle, counts, processedFiles, pdfFiles, alertMsg, k, currentBatch,
                 pdf, type, openDocuments>>

\* The page can take user input: no dialog (picker, alert) is open and no
\* handler is running.
Interactive == pc \notin {"picker", "checkPath", "finally"}

\* the Previous button
previousPage ==
  /\ Interactive
  /\ Len(fileList) > 0
  /\ totalPages > 1
  /\ currentPage # 1
  /\ currentPage' = Max(1, currentPage - 1)
  /\ UNCHANGED <<publishedVars, sortField, sortDirection, searchQuery, viewerVars,
                 runVars, BATCH_SIZE>>

\* the Next button
nextPage ==
  /\ Interactive
  /\ Len(fileList) > 0
  /\ totalPages > 1
  /\ currentPage # totalPages
  /\ currentPage' = Min(totalPages, currentPage + 1)
  /\ UNCHANGED <<publishedVars, sortField, sortDirection, searchQuery, viewerVars,
                 runVars, BATCH_SIZE>>

Next ==
  \/ analysePDFs
  \/ showDirectoryPicker
  \/ checkPathExists
  \/ enumerate
  \/ processPDFBatch
  \/ runComplete
  \/ finally
  \/ processPDFFile
  \/ getFile
  \/ parse
  \/ destroy
  \/ delayFile
  \/ delayBatch
  \/ previousPage
  \/ nextPage

Spec == Init /\ [][Next]_vars

(***************************************************************************)
(* Properties of the analysis run.                                         *)
(***************************************************************************)
Categories == {"WIDE", "A3", "A4"}

RECURSIVE TallyOf(_, _)
TallyOf(list, X) ==
  IF list = <<>> THEN 0
  ELSE (IF Head(list).type = TypeName(X) THEN Head(list).pages ELSE 0)
         + TallyOf(Tail(list), X)

\* the run has completed its batch loop (no alert) and is about to return
RunCompleted == pc = "finally" /\ alertMsg = ""

\* the run is past the enumeration, inside the batch loop
InBatchLoop ==
  pc \in {"loop", "file", "getFile", "parse", "destroy", "delayFile", "delayBatch"}

\* C1: after every batch (the setProgress publish) and at the end of every
\* completed run, each published tally equals the sum of the pages of the
\* published records of that category.
TallyRecordConsistency ==
  (pc = "delayBatch" \/ RunCompleted) =>
    \A X \in Categories : pageCounts[X] = TallyOf(fileList, X)

\* C2: no failure of a file ends the run: when analysePDFs reaches its finally
\* block every collected file has been attempted, and the only alerts are
\* those of the access failures.
PerFileFailureIsolation ==
  pc = "finally" =>
    /\ i >= Len(pdfFiles)
    /\ alertMsg \in {"", PickerAborted, PathNotAccessible}

\* a regular file with the PDF extension in any letter case and a category
\* marker, which reads, parses and releases without failure
YieldsRecord(handle) ==
  /\ handle.kind = "file"
  /\ endsWith(toLowerCase(handle.name), ExtPdf)
  /\ classify(toUpperCase(handle.name)) # ""
  /\ handle.io = "ok"

RecordsOf(handle) == {n \in 1..Len(fileList) : fileList[n].fileHandle = handle}

\* C3: at the end of a completed run every such file of the directory has
\* exactly one record, of its page count; the example directory with batch
\* size 2 gives the tallies {WIDE:3, A3:5, A4:1} and the records A, B, D.
EndToEndResult ==
  RunCompleted /\ dirHandle # NULL =>
    /\ \A n \in 1..Len(dirHandle[1]) :
         YieldsRecord(dirHandle[1][n]) =>
           /\ Cardinality(RecordsOf(dirHandle[1][n])) = 1
           /\ \A r \in RecordsOf(dirHandle[1][n]) :
                fileList[r].pages = dirHandle[1][n].numPages
    /\ (dirHandle[1] = E2EDir /\ BATCH_SIZE = 2) =>
         /\ pageCounts = [WIDE |-> 3, A3 |-> 5, A4 |-> 1]
         /\ [n \in 1..Len(fileList) |-> fileList[n].name]
              = <<FileA.name, FileB.name, FileD.name>>

\* processPDFFile on one handle, as the specification describes it: a record
\* for a classified file that reads and parses, nothing otherwise
RECURSIVE OneByOne(_)
OneByOne(files) ==
  IF files = <<>> THEN <<>>
  ELSE OneByOne(SubSeq(files, 1, Len(files) - 1))
         \o (LET fh == files[Len(files)]
             IN  IF /\ IsPdfHandle(fh)
                    /\ fh.io = "ok"
                    /\ classify(toUpperCase(fh.name)) # ""
                 THEN <<FileInfo(fh, classify(toUpperCase(fh.name)))>>
                 ELSE <<>>)

\* C4: when analysePDFs ends, processPDFBatch has been called ceil(N/B) times
\* and the records are those of processing the N files one by one.
BatchingTransparent ==
  pc = "finally" =>
    /\ currentBatch = CeilDiv(Len(pdfFiles), BATCH_SIZE)
    /\ processedFiles = OneByOne(pdfFiles)

\* C6: inside the batch loop of a run and when it has completed, the
\* published list holds only the records of that run and no published tally
\* exceeds what that run has counted.
PublishedStateOfThisRun ==
  (InBatchLoop \/ RunCompleted) =>
    /\ fileList = processedFiles
    /\ \A X \in Categories : pageCounts[X] <= counts[X]

\* C7: from the click to the end of a run that the picker or the path check
\* aborts, no step changes the published list, the tallies or the current
\* page and nothing is enumerated; the abort raises an alert and the run ends
\* with loading false and progress null.
AccessFailureNoPartialState ==
  [][/\ pc' \in {"picker", "checkPath"} =>
          UNCHANGED <<fileList, pageCounts, currentPage>>
     /\ (pc \in {"picker", "checkPath"} /\ pc' = "finally") =>
          /\ alertMsg' \in {PickerAborted, PathNotAccessible}
          /\ pdfFiles' = <<>> /\ processedFiles' = <<>> /\ counts' = ZeroCounts
          /\ UNCHANGED <<fileList, pageCounts, currentPage>>
     /\ (pc = "finally" /\ alertMsg \in {PickerAborted, PathNotAccessible}) =>
          /\ pc' = "idle" /\ loading' = FALSE /\ progress' = NULL
          /\ UNCHANGED <<fileList, pageCounts, currentPage>>]_vars

\* C7 witness: the path check has failed with records published and the table
\* on its second page
AccessFailureReached ==
  /\ pc = "finally"
  /\ alertMsg = PathNotAccessible
  /\ Len(fileList) > filesPerPage
  /\ currentPage = 2

Fragments ==
  {<<"-", "w", "i", "d", "e">>, MarkerWIDE, <<"-", "a", "3">>, MarkerA3,
   <<"-", "a", "4">>, MarkerA4, <<"x">>, <<"-">>, <<"a">>, <<"3">>}

RECURSIVE Stems(_)
Stems(n) ==
  IF n = 0 THEN {<<>>}
  ELSE Stems(n - 1) \cup {s \o f : s \in Stems(n - 1), f \in Fragments}

GeneratedHandles ==
  {Handle(s \o ExtPdf, "file", 2, 9, io) : s \in Stems(MaxFragments), io \in {"ok", "destroyFails"}}

InitClassify ==
  /\ InitPublished
  /\ InitTableState
  /\ InitViewer
  /\ BATCH_SIZE \in BatchSizes
  /\ loading = TRUE
  /\ progress = NULL
  /\ pc = "file"
  /\ \E fh \in GeneratedHandles :
       /\ dirHandle = <<(<<fh>>)>>
       /\ pdfFiles = <<fh>>
  /\ counts = ZeroCounts
  /\ processedFiles = <<>>
  /\ i = 0
  /\ alertMsg = ""
  /\ k = 1
  /\ currentBatch = 1
  /\ pdf = NULL
  /\ type = ""
  /\ openDocuments = 0

NextClassify ==
  \/ processPDFFile
  \/ getFile
  \/ parse
  \/ destroy
  \/ delayFile
  \/ delayBatch
  \/ runComplete
  \/ finally

SpecClassify == InitClassify /\ [][NextClassify]_vars

\* the marker occurs in the name, letter case ignored
ContainsMarker(name, marker) ==
  \E off \in 0..(Len(name) - Len(marker)) :
    \A n \in 1..Len(marker) : UpperOf[name[off + n]] = marker[n]

MarkersIn(name) ==
  {X \in Categories :
     ContainsMarker(name, CASE X = "WIDE" -> MarkerWIDE
                            [] X = "A3" -> MarkerA3
                            [] X = "A4" -> MarkerA4)}

\* C5: a parsed file's type is WIDE if its name holds -WIDE, else A3 if it
\* holds -A3, else A4 if it holds -A4 (any letter case), so a name with one
\* marker gets that category; a name with no marker gets no type, no record
\* and no change of the tallies.
ClassificationByPriority ==
  /\ pc = "destroy" =>
       LET present == MarkersIn(pdfFiles[1].name) IN
         /\ type = (IF "WIDE" \in present THEN "WIDE"
                    ELSE IF "A3" \in present THEN "A3"
                    ELSE IF "A4" \in present THEN "A4" ELSE "")
         /\ Cardinality(present) = 1 => type \in present
         /\ counts = IF type = "" THEN ZeroCounts
                     ELSE [ZeroCounts EXCEPT ![type] = pdfFiles[1].numPages]
  /\ (pc \in {"delayFile", "delayBatch", "loop", "finally"}
        /\ MarkersIn(pdfFiles[1].name) = {}) =>
       /\ processedFiles = <<>> /\ fileList = <<>>
       /\ counts = ZeroCounts /\ pageCounts = ZeroCounts
  /\ \A n \in 1..Len(fileList) :
       /\ fileList[n].type \in {TypeName(X) : X \in MarkersIn(fileList[n].name)}
       /\ pageCounts = [ZeroCounts EXCEPT ![CHOOSE X \in Categories :
                                              TypeName(X) = fileList[n].type]
                                            = fileList[n].pages]

\* C5 witness: a lower-case name holding -a3 and -wide has been classified WIDE
SeveralMarkersClassified ==
  /\ pc = "destroy"
  /\ type = "WIDE"
  /\ pdfFiles[1].name = <<"-", "a", "3", "-", "w", "i", "d", "e">> \o ExtPdf

(***************************************************************************)
(* The file table: handleSort and the search input, on a published list.   *)
(***************************************************************************)
SortFields == {"name", "type", "pages", "createdAt"}

FileALower == Handle(<<"a">> \o MarkerWIDE \o ExtPdf, "file", 3, 21, "ok")

\* files that yield records, some with equal types, page counts and dates
RecordPool == {FileA, FileALower, FileD, BigDir[1], BigDir[9]}

RECURSIVE RecordsOfFiles(_)
RecordsOfFiles(files) ==
  IF files = <<>> THEN <<>>
  ELSE <<FileInfo(Head(files), classify(toUpperCase(Head(files).name)))>>
         \o RecordsOfFiles(Tail(files))

PublishedLists ==
  {RecordsOfFiles(files) : files \in UNION {DistinctSeqs(RecordPool, n) : n \in 1..MaxList}}

Queries == {<<>>, <<"A", "4">>, <<"2", "1">>}

\* BATCH_SIZE when the environment sets none
DefaultBatchSize == 3

InitTable ==
  /\ InitRun
  /\ InitTableState
  /\ InitViewer
  /\ BATCH_SIZE = DefaultBatchSize
  /\ fileList \in PublishedLists
  /\ pageCounts = [X \in Categories |-> TallyOf(fileList, X)]

\* a click on a column header (shown when the list is not empty)
handleSort(field) ==
  /\ Interactive
  /\ Len(fileList) > 0
  /\ IF sortField = field
     THEN /\ sortDirection' = (IF sortDirection = "asc" THEN "desc" ELSE "asc")
          /\ UNCHANGED sortField
     ELSE /\ sortField' = field
          /\ sortDirection' = "asc"
  /\ UNCHANGED <<publishedVars, currentPage, searchQuery, viewerVars, runVars, BATCH_SIZE>>

\* typing in the search input
setSearchQuery(query) ==
  /\ Interactive
  /\ searchQuery' = query
  /\ UNCHANGED <<publishedVars, currentPage, sortField, sortDirection, viewerVars,
                 runVars, BATCH_SIZE>>

NextTable ==
  \/ \E field \in SortFields : handleSort(field)
  \/ \E query \in Queries : setSearchQuery(query)

SpecTable == InitTable /\ [][NextTable]_vars

Reverse(s) == [n \in 1..Len(s) |-> s[Len(s) - n + 1]]

PositionIn(list, x) == CHOOSE n \in 1..Len(list) : list[n] = x

\* records with equal keys are displayed in the order of the list
StableFor(field, shown, list) ==
  \A a, b \in 1..Len(shown) :
    (a < b /\ CompareBy(field, shown[a], shown[b]) = 0) =>
      PositionIn(list, shown[a]) < PositionIn(list, shown[b])

DistinctKeys(field, list) ==
  \A a, b \in 1..Len(list) : a # b => CompareBy(field, list[a], list[b]) # 0

\* a step that sorts by the active field again
SortToggled ==
  /\ sortField' = sortField
  /\ sortDirection' # sortDirection

\* C9 as claimed: sorting by the active field again displays exactly the
\* reverse of the order displayed before.
SortTwiceReverses ==
  [][SortToggled =>
       \A before \in {sortedFiles} : \A after \in {sortedFiles'} :
         after = Reverse(before)]_vars

\* C9 amended: a change of the sort key sets the direction to ascending;
\* sorting by the active field again flips the direction and displays the
\* keys in reverse order, records with equal keys keeping the order of the
\* list in both directions; the displayed order is the exact reverse when no
\* two records have equal keys.
SortTwiceReversesKeys ==
  [][/\ sortField' # sortField => sortDirection' = "asc"
     /\ SortToggled =>
          \A list \in {filteredFiles} :
          \A before \in {sortedFiles} : \A after \in {sortedFiles'} :
            /\ Len(after) = Len(before)
            /\ \A n \in 1..Len(before) :
                 CompareBy(sortField, after[n], before[Len(before) - n + 1]) = 0
            /\ \A n \in 1..(Len(after) - 1) :
                 Comparator(sortField', sortDirection', after[n], after[n + 1]) <= 0
            /\ StableFor(sortField, before, list)
            /\ StableFor(sortField, after, list)
            /\ DistinctKeys(sortField, before) => after = Reverse(before)]_vars

\* C9 witness: a list sorted again by the active field, descending, that
\* displays two records with equal keys
EqualKeysSortedDescending ==
  /\ sortDirection = "desc"
  /\ \A shown \in {sortedFiles} :
       Len(shown) >= 2 /\ ~DistinctKeys(sortField, shown)

(***************************************************************************)
(* The PDF viewer: openPdfViewer, closeModal, changePage.                  *)
(***************************************************************************)
\* the modal is rendered, over the whole page
ModalShown == selectedFile # NULL /\ pdfUrl # NULL

\* pdfDocument.destroy() and URL.revokeObjectURL(pdfUrl)
Destroyed(document) ==
  IF document = NULL THEN NULL ELSE <<[document[1] EXCEPT !.destroyed = TRUE]>>

Revoked(url) ==
  IF url = NULL THEN NULL ELSE <<[url[1] EXCEPT !.revoked = TRUE]>>

\* The effect on [pdfDocument, currentPdfPage] closes over the pdfDocument and
\* the pdfUrl of the render it ran in: "null", the object now in the state
\* ("current"), or an object the state no longer holds ("replaced").
Captured(document, url) ==
  [pdfDocument |-> IF document = NULL THEN "null" ELSE "current",
   pdfUrl |-> IF url = NULL THEN "null" ELSE "current"]

\* the captured object has left the state, the effect has not run again
Replaced(captured) == IF captured = "current" THEN "replaced" ELSE captured

\* a click on a file name of the table: openPdfViewer up to its first await
openPdfViewer(file) ==
  /\ Interactive
  /\ ~ModalShown
  /\ Len(viewerCalls) < MaxCalls
  /\ file \in Range(visibleFiles)
  /\ selectedFile' = <<file>>
  /\ viewerCalls' = Append(viewerCalls, [file |-> file, stage |-> "getFile"])
  /\ UNCHANGED <<publishedVars, tableVars, pdfUrl, pdfDocument, currentPdfPage,
                 totalPdfPages, cleanup, runVars, BATCH_SIZE>>

RemoveAt(calls, c) == SubSeq(calls, 1, c - 1) \o SubSeq(calls, c + 1, Len(calls))

\* file.fileHandle.getFile() settles: createObjectURL and setPdfUrl, or the
\* catch block; the dependencies of the effect do not change
openGetFile(c) ==
  /\ viewerCalls[c].stage = "getFile"
  /\ \/ /\ pdfUrl' = <<[blob |-> viewerCalls[c].file.name, revoked |-> FALSE]>>
        /\ cleanup' = [cleanup EXCEPT !.pdfUrl = Replaced(@)]
        /\ viewerCalls' = [viewerCalls EXCEPT ![c].stage = "getDocument"]
     \/ /\ viewerCalls' = RemoveAt(viewerCalls, c)
        /\ UNCHANGED <<pdfUrl, cleanup>>
  /\ UNCHANGED <<publishedVars, tableVars, selectedFile, pdfDocument, currentPdfPage,
                 totalPdfPages, runVars, BATCH_SIZE>>

\* getDocument(url) settles: setPdfDocument, setTotalPdfPages and
\* setCurrentPdfPage(1), then the cleanup of the last effect and the effect of
\* this render; or the catch block
openGetDocument(c) ==
  /\ viewerCalls[c].stage = "getDocument"
  /\ \/ /\ pdfDocument' = <<[numPages |-> viewerCalls[c].file.fileHandle.numPages,
                            name |-> viewerCalls[c].file.name,
                            destroyed |-> FALSE]>>
        /\ totalPdfPages' = viewerCalls[c].file.fileHandle.numPages
        /\ currentPdfPage' = 1
        /\ pdfUrl' = IF cleanup.pdfUrl = "current" THEN Revoked(pdfUrl) ELSE pdfUrl
        /\ cleanup' = Captured(pdfDocument', pdfUrl')
     \/ UNCHANGED <<pdfDocument, totalPdfPages, currentPdfPage, pdfUrl, cleanup>>
  /\ viewerCalls' = RemoveAt(viewerCalls, c)
  /\ UNCHANGED <<publishedVars, tableVars, selectedFile, runVars, BATCH_SIZE>>

\* the X button of the modal; the effect runs again when pdfDocument or
\* currentPdfPage changed
closeModal ==
  /\ ModalShown
  /\ selectedFile' = NULL
  /\ pdfUrl' = NULL
  /\ pdfDocument' = NULL
  /\ currentPdfPage' = 1
  /\ totalPdfPages' = 0
  /\ cleanup' = IF pdfDocument # NULL \/ currentPdfPage # 1
                THEN Captured(NULL, NULL)
                ELSE [pdfDocument |-> Replaced(cleanup.pdfDocument),
                      pdfUrl |-> Replaced(cleanup.pdfUrl)]
  /\ UNCHANGED <<publishedVars, tableVars, viewerCalls, runVars, BATCH_SIZE>>

\* the commit after setCurrentPdfPage(newPage): when the page changed, the
\* cleanup of the last effect destroys the document and revokes the URL it
\* closed over, and the effect of this render closes over the state again
pageEffect(newPage) ==
  IF newPage # currentPdfPage
  THEN /\ pdfDocument' = IF cleanup.pdfDocument = "current"
                         THEN Destroyed(pdfDocument) ELSE pdfDocument
       /\ pdfUrl' = IF cleanup.pdfUrl = "current" THEN Revoked(pdfUrl) ELSE pdfUrl
       /\ cleanup' = Captured(pdfDocument', pdfUrl')
  ELSE UNCHANGED <<pdfDocument, pdfUrl, cleanup>>

\* a changePage that accepts page 0
changePageFromZero(newPage) ==
  /\ ModalShown
  /\ IF newPage >= 0 /\ newPage <= totalPdfPages
     THEN /\ currentPdfPage' = newPage
          /\ pageEffect(newPage)
     ELSE UNCHANGED <<currentPdfPage, pdfDocument, pdfUrl, cleanup>>
  /\ UNCHANGED <<publishedVars, tableVars, selectedFile,
                 totalPdfPages, viewerCalls, runVars, BATCH_SIZE>>

\* changePage(newPage); the buttons of the modal call it with the current
\* page number minus or plus one, the model with any page number
changePage(newPage) ==
  /\ ModalShown
  /\ IF newPage >= 1 /\ newPage <= totalPdfPages
     THEN /\ currentPdfPage' = newPage
          /\ pageEffect(newPage)
     ELSE UNCHANGED <<currentPdfPage, pdfDocument, pdfUrl, cleanup>>
  /\ UNCHANGED <<publishedVars, tableVars, selectedFile,
                 totalPdfPages, viewerCalls, runVars, BATCH_SIZE>>

\* the files opened in the viewer
ViewerPool == {FileA, FileD}

ViewerLists ==
  {RecordsOfFiles(files) : files \in UNION {DistinctSeqs(ViewerPool, n) : n \in 1..MaxList}}

\* page numbers passed to changePage
PageNumbers == 0..4

InitViewerSpec ==
  /\ InitRun
  /\ InitTableState
  /\ InitViewer
  /\ BATCH_SIZE = DefaultBatchSize
  /\ fileList \in ViewerLists
  /\ pageCounts = [X \in Categories |-> TallyOf(fileList, X)]

NextViewer ==
  \/ \E file \in Range(fileList) : openPdfViewer(file)
  \/ \E c \in 1..Len(viewerCalls) : openGetFile(c)
  \/ \E c \in 1..Len(viewerCalls) : openGetDocument(c)
  \/ closeModal
  \/ \E newPage \in PageNumbers : changePage(newPage)

SpecViewer == InitViewerSpec /\ [][NextViewer]_vars

\* C8: a session holding a parsed document of n pages has totalPages = n and
\* its current page in 1..n; a new document starts at page 1; a change of the
\* page of an open document leads to a page in 1..n; and changePage(k) is
\* taken to page k for every k in 1..n.
ViewerPageInRange ==
  /\ [](pdfDocument # NULL =>
          /\ totalPdfPages = pdfDocument[1].numPages
          /\ currentPdfPage \in 1..totalPdfPages)
  /\ []((ModalShown /\ pdfDocument # NULL) =>
          \A newPage \in 1..totalPdfPages :
            ENABLED (changePage(newPage) /\ currentPdfPage' = newPage))
  /\ [][/\ (pdfDocument' # pdfDocument /\ pdfDocument' # NULL
              /\ ~pdfDocument'[1].destroyed) => currentPdfPage' = 1
        /\ (currentPdfPage' # currentPdfPage /\ pdfDocument # NULL
              /\ pdfDocument' \in {pdfDocument, Destroyed(pdfDocument)}) =>
             currentPdfPage' \in 1..totalPdfPages]_vars

\* C8 witness: the viewer is on the last page of a document of three pages
ViewerOnLastPage ==
  /\ ModalShown
  /\ pdfDocument # NULL
  /\ totalPdfPages = 3
  /\ currentPdfPage = 3

(***************************************************************************)
(* Resources of the counting pipeline.                                     *)
(***************************************************************************)

\* the run loop is between two files: processPDFFile has returned
BetweenFiles == pc \in {"loop", "file", "delayFile", "delayBatch"}

\* C11: every parsed document opened by processPDFFile is destroyed before
\* processPDFFile returns, on every path: between two files no counting
\* document is open, and at most one is open at any time during a run.
CountingDocumentsReleased ==
  /\ openDocuments <= 1
  /\ BetweenFiles => openDocuments = 0

(***************************************************************************)
(* Termination of a run.  Every await of analysePDFs settles: the dialogs  *)
(* are answered, the file reads and the parser resolve or reject, and the  *)
(* timers of delay() fire.                                                 *)
(***************************************************************************)
RunStep ==
  \/ showDirectoryPicker
  \/ checkPathExists
  \/ enumerate
  \/ processPDFBatch
  \/ runComplete
  \/ finally
  \/ processPDFFile
  \/ getFile
  \/ parse
  \/ destroy
  \/ delayFile
  \/ delayBatch

SpecLive == Init /\ [][Next]_vars /\ WF_vars(RunStep)

\* C12: a started run eventually reaches the idle state with loading = false
\* and progress = null, whatever the outcome of the access request and of
\* each file; loading is true for the whole run, so the Select Folder button
\* cannot start a second run before the first has ended.
EveryRunEnds ==
  /\ [](loading <=> pc # "idle")
  /\ [](pc = "idle" => progress = NULL)
  /\ loading ~> (pc = "idle" /\ ~loading /\ progress = NULL)

\* C12 witness: a run has ended and left its records published
RunEndedWithRecords ==
  /\ pc = "idle"
  /\ ~loading
  /\ progress = NULL
  /\ Len(fileList) > 0

(***************************************************************************)
(* Lifetime of the viewer's document.                                      *)
(***************************************************************************)

\* C13: whenever the viewer is open on a file with a parsed document, that
\* document has not been destroyed and its object URL has not been revoked,
\* in particular after successful changePage operations.
ViewerDocumentLive ==
  (ModalShown /\ pdfDocument # NULL) =>
    /\ ~pdfDocument[1].destroyed
    /\ ~pdfUrl[1].revoked

(***************************************************************************)
(* Pagination of the file table under search and sort.                     *)
(***************************************************************************)

\* published lists of one page and of two pages
PagedLists ==
  {RecordsOfFiles(SubSeq(BigDir, 1, n)) : n \in (BigSize - 2)..BigSize}

\* search input values: all records, some of them, one, none
PagingQueries ==
  {<<>>, <<"A", "4">>, <<"p", "0">>, <<"p", "1">>, <<"p", "0", "3">>, <<"w", "i", "d", "e">>}

InitPaging ==
  /\ InitRun
  /\ InitTableState
  /\ InitViewer
  /\ BATCH_SIZE = DefaultBatchSize
  /\ fileList \in PagedLists
  /\ pageCounts = [X \in Categories |-> TallyOf(fileList, X)]

NextPaging ==
  \/ previousPage
  \/ nextPage
  \/ \E field \in SortFields : handleSort(field)
  \/ \E query \in PagingQueries : setSearchQuery(query)

SpecPaging == InitPaging /\ [][NextPaging]_vars

\* C14: after any sequence of Next, Previous, search and sort operations the
\* current page satisfies 1 <= currentPage <= max(1, totalPages), so the
\* visible slice is not empty whenever the filtered list is not empty.
TablePageInRange ==
  /\ 1 <= currentPage
  /\ currentPage <= Max(1, totalPages)
  /\ Len(filteredFiles) > 0 => Len(visibleFiles) > 0

=========================================================================
